---- MODULE Spec2Model ----
(***************************************************************************)
(* State-machine model of src/components/IndiaFromSpace.tsx: the date      *)
(* sequence, the single map and its 'gibs' source/layer, the animation     *)
(* driver (animateDates), the capture controller (startRecording) and      *)
(* stopAll, under React's rendering rules (state updates made inside one   *)
(* synchronous run are batched and rendered together; a callback reads the *)
(* state values of the render that created it).                            *)
(*                                                                         *)
(* The specifications share the actions:                                  *)
(*   Spec      the component as mounted (useState initial values, the      *)
(*             container attached) and driven through its three buttons    *)
(*             and two inputs;                                             *)
(*   UnitSpec  the same callbacks on component states drawn from bounded   *)
(*             sets (container attached or not, isAnimating true or false, *)
(*             a short date sequence), plus a direct call of               *)
(*             updateDateTiles: the setting in which the callbacks'        *)
(*             contracts are stated.                                       *)
(*   DatesSpec the Days input, the clock and the map-ensuring effect on    *)
(*             their own, with no session running;                         *)
(*   LiveSpec  Spec with the recorder's queued stop task eventually run;   *)
(*   LoopSpec  the loop of animateDates with its timers eventually fired   *)
(*             and the map's idle event left to chance.                    *)
(***************************************************************************)
EXTENDS Integers, Sequences, FiniteSets, TLC

VARIABLES
  today,          \* current UTC day (days since 1970-01-01) read by new Date()
  days,           \* useState(30)
  dates,          \* useMemo over [days]
  datesAt,        \* history: value of today when dates was computed
  hasContainer,   \* containerRef.current is an element
  mapRef,         \* mapRef.current: 0 is null, k > 0 the k-th constructed map
  mapsCreated,    \* history: number of `new maplibregl.Map` evaluations
  mapStyle,       \* sources and layers of the map in mapRef
  isAnimating,    \* useState(false)
  isRecording,    \* useState(false)
  status,         \* useState("")
  effectPending,  \* the useEffect of lines 82-85 is scheduled and has not run
  sessions,       \* invocations of animateDates / startRecording, in start order
  recorderRef,    \* recorderRef.current: 0 is null, k the recorder of session k
  recordedChunks, \* recordedChunksRef.current
  downloads,      \* history: blobs handed to the browser download (a.click())
  lastDate,       \* history: the date the map was last asked to show
  afterStop,      \* history: stopAll was the handler that ran last
  afterRecord,    \* history: startRecording was the handler that ran last
  stopSeen        \* history: the last button pressed was Stop, and a session
                  \* was pending when it was pressed

vars == <<today, days, dates, datesAt, hasContainer, mapRef, mapsCreated,
          mapStyle, isAnimating, isRecording, status, effectPending, sessions,
          recorderRef, recordedChunks, downloads, lastDate,
          afterStop, afterRecord, stopSeen>>

(***************************************************************************)
(* Program constants and bounds                                            *)
(***************************************************************************)
DefaultDays == 30
MinDays == 7
MaxDays == 120
FallbackDays == 3

\* bounds of the model
MaxSessions == 2      \* invocations of Play / Record followed in Spec, LoopSpec
MaxUnitSessions == 1  \* invocations of Play / Record followed in UnitSpec
MaxChunk == 1         \* largest size of one encoder chunk
MaxChunks == 1        \* chunks one recorder emits while recording
MaxTicks == 1         \* midnights that pass per behaviour
MaxTyped == 2         \* largest day count typed below the input's min

\* UTC days the component may be opened on: 2024-02-28 (before a leap day),
\* 2025-01-01 (after a year end), 2026-11-03
TodayChoices == {19781, 20089, 20760}
\* day counts typed into the input in Spec and UnitSpec (onChange does not
\* clamp): an empty sequence and a short one
DayChoices == {0, MaxTyped}
\* the day Spec and UnitSpec run on: 2026-11-03
Today0 == 20760
\* day counts the input's min/max admit
UiDays == MinDays..MaxDays

(***************************************************************************)
(* Dates                                                                   *)
(***************************************************************************)
\* A Date is modelled by its UTC day number: the time of day is carried
\* through setUTCDate unchanged and formatDate drops it.
\* d.setUTCDate(d.getUTCDate() - n) is MakeDay(year, month, date - n), the day
\* number of the first of the month plus (date - n) - 1, i.e. the day number
\* minus n.
daysAgo(now, n) == now - n

\* getUTCFullYear / getUTCMonth()+1 / getUTCDate of a day number (proleptic
\* Gregorian calendar), the three fields formatDate prints as YYYY-MM-DD.
formatDate(date) ==
  LET z   == date + 719468
      era == z \div 146097
      doe == z - era * 146097
      yoe == (doe - (doe \div 1460) + (doe \div 36524) - (doe \div 146096)) \div 365
      doy == doe - (365 * yoe + (yoe \div 4) - (yoe \div 100))
      mp  == (5 * doy + 2) \div 153
      d   == doy - ((153 * mp + 2) \div 5) + 1
      m   == IF mp < 10 THEN mp + 3 ELSE mp - 9
      y   == yoe + era * 400 + (IF m <= 2 THEN 1 ELSE 0)
  IN  <<y, m, d>>

\* for (let i = days + 1; i >= 2; i--) list.push(formatDate(daysAgo(i)))
RECURSIVE DatesFrom(_, _)
DatesFrom(now, i) ==
  IF i >= 2 THEN <<formatDate(daysAgo(now, i))>> \o DatesFrom(now, i - 1)
  ELSE <<>>

\* mutant: the loop starts at days instead of days + 1
ComputeDates_FromDays(now, n) == DatesFrom(now, n)

ComputeDates(now, n) == DatesFrom(now, n + 1)

buildGibsUrl(dateStr) ==
  <<"https://gibs.earthdata.nasa.gov/wmts/epsg3857/best/VIIRS_SNPP_CorrectedReflectance_TrueColor/default/",
    dateStr, "/GoogleMapsCompatible_Level9/{z}/{y}/{x}.jpg">>

\* dates[0] ?? formatDate(daysAgo(3))
InitialDate(list, now) ==
  IF Len(list) > 0 THEN list[1] ELSE formatDate(daysAgo(now, FallbackDays))

(***************************************************************************)
(* The map: its style's sources and layers                                 *)
(***************************************************************************)
NoStyle == [sources |-> {}, layers |-> {}, threw |-> FALSE]

\* style: { sources: { gibs: {...} }, layers: [{ id: "gibs-layer", ... }] }
NewMapStyle(initialDate) ==
  [sources |-> {[id |-> "gibs", tiles |-> buildGibsUrl(initialDate)]},
   layers  |-> {[id |-> "gibs-layer", source |-> "gibs"]},
   threw   |-> FALSE]

getLayer(m, id) == \E l \in m.layers : l.id = id
getSource(m, id) == \E s \in m.sources : s.id = id
removeLayer(m, id) == [m EXCEPT !.layers = {l \in @ : l.id # id}]
\* a source still used by a layer is not removed (the map reports an error)
removeSource(m, id) ==
  IF \E l \in m.layers : l.source = id THEN m
  ELSE [m EXCEPT !.sources = {s \in @ : s.id # id}]
\* adding a source under an id in use throws
addSource(m, id, url) ==
  IF getSource(m, id) THEN [m EXCEPT !.threw = TRUE]
  ELSE [m EXCEPT !.sources = @ \cup {[id |-> id, tiles |-> url]}]
\* a layer whose id is in use or whose source is missing is not added
addLayer(m, id, src) ==
  IF getLayer(m, id) \/ ~getSource(m, src) THEN m
  ELSE [m EXCEPT !.layers = @ \cup {[id |-> id, source |-> src]}]

\* mutant: the old layer is not removed before the source is replaced
updateDateTiles_KeepLayer(ref, m, dateStr) ==
  IF ref = 0 THEN m
  ELSE
    LET m2 == IF getSource(m, "gibs") THEN removeSource(m, "gibs") ELSE m
        m3 == addSource(m2, "gibs", buildGibsUrl(dateStr))
    IN  IF m3.threw THEN m3 ELSE addLayer(m3, "gibs-layer", "gibs")

\* updateDateTiles(dateStr) on the map held by mapRef (ref = 0: no map)
updateDateTiles(ref, m, dateStr) ==
  IF ref = 0 THEN m
  ELSE
    LET m1 == IF getLayer(m, "gibs-layer") THEN removeLayer(m, "gibs-layer") ELSE m
        m2 == IF getSource(m1, "gibs") THEN removeSource(m1, "gibs") ELSE m1
        m3 == addSource(m2, "gibs", buildGibsUrl(dateStr))
    IN  IF m3.threw THEN m3 ELSE addLayer(m3, "gibs-layer", "gibs")

\* mutant: the guard on mapRef.current is missing
ensureMap_NoRefGuard(ref, container, created, m, initialDate) ==
  IF ~container
    THEN [ref |-> ref, created |-> created, style |-> m]
    ELSE [ref |-> created + 1, created |-> created + 1,
          style |-> NewMapStyle(initialDate)]

\* ensureMap(initialDate): the map reference, the creation count and the style
\* after the call
ensureMap(ref, container, created, m, initialDate) ==
  IF ref # 0 \/ ~container
    THEN [ref |-> ref, created |-> created, style |-> m]
    ELSE [ref |-> created + 1, created |-> created + 1,
          style |-> NewMapStyle(initialDate)]

(***************************************************************************)
(* Status texts                                                            *)
(***************************************************************************)
Status(text) == [text |-> text, frame |-> 0, total |-> 0]
\* `Recording frame ${i + 1} / ${total}`
FrameStatus(i, total) == [text |-> "Recording frame", frame |-> i + 1, total |-> total]
StatusEmpty == Status("")
StatusVideoReady == Status("Video ready. You can re-record or adjust settings.")

(***************************************************************************)
(* One invocation of animateDates (kind "preview", from the Play button)   *)
(* or of startRecording (kind "record").  The values an invocation closes  *)
(* over are fixed when the callback is created, i.e. at the render before  *)
(* the click: isAnimating, isRecording and dates.                          *)
(***************************************************************************)
NewSession(kind, anim, rec, list) ==
  [kind         |-> kind,
   pc           |-> "running",   \* running | waitIdle | pacing | returned |
                                 \* awaitStop | done | failed
   i            |-> 0,           \* loop variable of animateDates
   capAnimating |-> anim,        \* isAnimating as captured by useCallback
   capRecording |-> rec,         \* isRecording as captured by useCallback
   capDates     |-> list,        \* dates as captured by useCallback
   listeners    |-> {},          \* steps whose onIdle is registered on the map
   timers       |-> {},          \* steps whose 1500 ms fallback timer is pending
   recState     |-> "none",      \* MediaRecorder.state (none: no recorder)
   stopQueued   |-> FALSE,       \* the recorder's dataavailable+stop task is queued
   stopResolved |-> FALSE,       \* stopPromise is resolved
   emitted      |-> 0,           \* history: timeslice chunks emitted
   buffered     |-> 0,           \* history: total size of its chunks pushed
   stopPc       |-> "",          \* history: pc when stopAll first interrupted it
   stopAt       |-> 0,           \* history: Len(bound) at that moment
   stopCalls    |-> 0,           \* history: calls of recorder.stop()
   staleFired   |-> FALSE,       \* history: a fallback timer of an earlier step
                                 \* fired while a later step was waiting
   bound        |-> <<>>,        \* history: dates passed to updateDateTiles
   frames       |-> <<>>]        \* history: indices passed to onFrame

\* The part of the state one synchronous run of a handler reads and writes.
World(s) ==
  [s |-> s, anim |-> isAnimating, rec |-> isRecording, st |-> status,
   style |-> mapStyle, dl |-> downloads]

\* recorder.stop(): an active recorder becomes inactive and queues the task
\* that fires dataavailable and stop; on an inactive recorder the call does
\* nothing or throws InvalidStateError, depending on the browser (strict).
RecorderStop(s, strict) ==
  IF s.recState = "recording"
    THEN [s EXCEPT !.recState = "inactive", !.stopQueued = TRUE,
                   !.stopCalls = @ + 1]
    ELSE [s EXCEPT !.stopCalls = @ + 1,
                   !.pc = IF strict THEN "failed" ELSE @]

\* mutant: the link is built but never clicked
Finalize_NoClick(w, id, chunks) ==
  [w EXCEPT !.s.pc = "done",
            !.rec = FALSE,
            !.st = StatusVideoReady]

\* lines 187-202: setRecording(false) ... a.click() ... setStatus("Video ready...")
Finalize(w, id, chunks) ==
  [w EXCEPT !.s.pc = "done",
            !.rec = FALSE,
            !.st = StatusVideoReady,
            !.dl = Append(@, [session |-> id, blob |-> chunks])]

\* mutant: stopPromise is not awaited
AfterDriver_NoAwait(w, id, chunks, strict) ==
  Finalize([w EXCEPT !.s = RecorderStop(w.s, strict)], id, chunks)

\* lines 185-186 and on: recorder.stop(); await stopPromise; finalize
AfterDriver(w, id, chunks, strict) ==
  LET s1 == RecorderStop(w.s, strict)
  IN  IF s1.pc = "failed" THEN [w EXCEPT !.s = s1]
      ELSE IF s1.stopResolved THEN Finalize([w EXCEPT !.s = s1], id, chunks)
      ELSE [w EXCEPT !.s = [s1 EXCEPT !.pc = "awaitStop"]]

\* mutant: the 1500 ms fallback timer of lines 128-131 is never set
RunLoop_NoFallback(w, i, ref) ==
  LET s == w.s
      total == Len(s.capDates)
  IN
  IF i < total /\ (s.capAnimating \/ s.capRecording)
    THEN
      LET dateStr == s.capDates[i + 1]
          style1  == updateDateTiles(ref, w.style, dateStr)
      IN  IF style1.threw
            THEN [w EXCEPT !.style = [style1 EXCEPT !.threw = FALSE],
                           !.s.i = i, !.s.pc = "failed"]
            ELSE [w EXCEPT
                    !.style = style1,
                    !.st = IF s.kind = "record" THEN FrameStatus(i, total) ELSE @,
                    !.s.i = i,
                    !.s.bound = Append(@, dateStr),
                    !.s.frames = IF s.kind = "record" THEN Append(@, i) ELSE @,
                    \* if (!map) return resolve(): straight on to the pacing sleep
                    !.s.pc = IF ref = 0 THEN "pacing" ELSE "waitIdle",
                    !.s.listeners = IF ref = 0 THEN @ ELSE @ \cup {i}]
    ELSE \* loop exhausted or break: setAnimating(false); setStatus("")
      [w EXCEPT !.anim = FALSE, !.st = StatusEmpty, !.s.i = i,
                !.s.pc = "returned"]

\* mutant: every step binds dates[0]
RunLoop_FirstDate(w, i, ref) ==
  LET s == w.s
      total == Len(s.capDates)
  IN
  IF i < total /\ (s.capAnimating \/ s.capRecording)
    THEN
      LET dateStr == s.capDates[1]
          style1  == updateDateTiles(ref, w.style, dateStr)
      IN  IF style1.threw
            THEN [w EXCEPT !.style = [style1 EXCEPT !.threw = FALSE],
                           !.s.i = i, !.s.pc = "failed"]
            ELSE [w EXCEPT
                    !.style = style1,
                    !.st = IF s.kind = "record" THEN FrameStatus(i, total) ELSE @,
                    !.s.i = i,
                    !.s.bound = Append(@, dateStr),
                    !.s.frames = IF s.kind = "record" THEN Append(@, i) ELSE @,
                    \* if (!map) return resolve(): straight on to the pacing sleep
                    !.s.pc = IF ref = 0 THEN "pacing" ELSE "waitIdle",
                    !.s.listeners = IF ref = 0 THEN @ ELSE @ \cup {i},
                    !.s.timers = IF ref = 0 THEN @ ELSE @ \cup {i}]
    ELSE \* loop exhausted or break: setAnimating(false); setStatus("")
      [w EXCEPT !.anim = FALSE, !.st = StatusEmpty, !.s.i = i,
                !.s.pc = "returned"]

\* mutant: line 114 reads the current isAnimating and isRecording
RunLoop_LiveFlags(w, i, ref) ==
  LET s == w.s
      total == Len(s.capDates)
  IN
  IF i < total /\ (w.anim \/ w.rec)
    THEN
      LET dateStr == s.capDates[i + 1]
          style1  == updateDateTiles(ref, w.style, dateStr)
      IN  IF style1.threw
            THEN [w EXCEPT !.style = [style1 EXCEPT !.threw = FALSE],
                           !.s.i = i, !.s.pc = "failed"]
            ELSE [w EXCEPT
                    !.style = style1,
                    !.st = IF s.kind = "record" THEN FrameStatus(i, total) ELSE @,
                    !.s.i = i,
                    !.s.bound = Append(@, dateStr),
                    !.s.frames = IF s.kind = "record" THEN Append(@, i) ELSE @,
                    \* if (!map) return resolve(): straight on to the pacing sleep
                    !.s.pc = IF ref = 0 THEN "pacing" ELSE "waitIdle",
                    !.s.listeners = IF ref = 0 THEN @ ELSE @ \cup {i},
                    !.s.timers = IF ref = 0 THEN @ ELSE @ \cup {i}]
    ELSE \* loop exhausted or break: setAnimating(false); setStatus("")
      [w EXCEPT !.anim = FALSE, !.st = StatusEmpty, !.s.i = i,
                !.s.pc = "returned"]

\* lines 113-138 from the top of iteration i up to the next await or the return
RunLoop(w, i, ref) ==
  LET s == w.s
      total == Len(s.capDates)
  IN
  IF i < total /\ (s.capAnimating \/ s.capRecording)
    THEN
      LET dateStr == s.capDates[i + 1]
          style1  == updateDateTiles(ref, w.style, dateStr)
      IN  IF style1.threw
            THEN [w EXCEPT !.style = [style1 EXCEPT !.threw = FALSE],
                           !.s.i = i, !.s.pc = "failed"]
            ELSE [w EXCEPT
                    !.style = style1,
                    !.st = IF s.kind = "record" THEN FrameStatus(i, total) ELSE @,
                    !.s.i = i,
                    !.s.bound = Append(@, dateStr),
                    !.s.frames = IF s.kind = "record" THEN Append(@, i) ELSE @,
                    \* if (!map) return resolve(): straight on to the pacing sleep
                    !.s.pc = IF ref = 0 THEN "pacing" ELSE "waitIdle",
                    !.s.listeners = IF ref = 0 THEN @ ELSE @ \cup {i},
                    !.s.timers = IF ref = 0 THEN @ ELSE @ \cup {i}]
    ELSE \* loop exhausted or break: setAnimating(false); setStatus("")
      [w EXCEPT !.anim = FALSE, !.st = StatusEmpty, !.s.i = i,
                !.s.pc = "returned"]

\* mutant: the length test of line 110 is missing
animateDates_NoEmptyCheck(w, ref) ==
  RunLoop([w EXCEPT !.anim = TRUE, !.st = Status("Animating frames...")],
          0, ref)

\* animateDates(opts) from its first line
animateDates(w, ref) ==
  IF Len(w.s.capDates) = 0 THEN [w EXCEPT !.s.pc = "returned"]
  ELSE RunLoop([w EXCEPT !.anim = TRUE, !.st = Status("Animating frames...")],
               0, ref)

\* what runs once animateDates has returned: nothing more for a preview, the
\* rest of startRecording for a recording
Resume(w, id, chunks, strict) ==
  IF w.s.pc # "returned" THEN w
  ELSE IF w.s.kind = "record" THEN AfterDriver(w, id, chunks, strict)
  ELSE [w EXCEPT !.s.pc = "done"]

Pending(s) == s.pc \in {"waitIdle", "pacing", "awaitStop"}
PendingSessions == {k \in 1..Len(sessions) : Pending(sessions[k])}

(***************************************************************************)
(* Initial states                                                          *)
(***************************************************************************)
\* the component after its first render, before its effect has run
Init ==
  /\ today = Today0
  /\ days = DefaultDays
  /\ dates = ComputeDates(today, days)
  /\ datesAt = today
  /\ hasContainer = TRUE
  /\ mapRef = 0
  /\ mapsCreated = 0
  /\ mapStyle = NoStyle
  /\ isAnimating = FALSE
  /\ isRecording = FALSE
  /\ status = StatusEmpty
  /\ effectPending = TRUE
  /\ sessions = <<>>
  /\ recorderRef = 0
  /\ recordedChunks = <<>>
  /\ downloads = <<>>
  /\ lastDate = InitialDate(dates, today)
  /\ afterStop = FALSE
  /\ afterRecord = FALSE
  /\ stopSeen = FALSE

\* the callbacks' setting: container attached or not, isAnimating either way,
\* a short date sequence
UnitInit ==
  /\ today = Today0
  /\ days \in DayChoices
  /\ dates = ComputeDates(today, days)
  /\ datesAt = today
  /\ hasContainer \in BOOLEAN
  /\ mapRef = 0
  /\ mapsCreated = 0
  /\ mapStyle = NoStyle
  /\ isAnimating \in BOOLEAN
  /\ isRecording = FALSE
  /\ status = StatusEmpty
  /\ effectPending = TRUE
  /\ sessions = <<>>
  /\ recorderRef = 0
  /\ recordedChunks = <<>>
  /\ downloads = <<>>
  /\ lastDate = InitialDate(dates, today)
  /\ afterStop = FALSE
  /\ afterRecord = FALSE
  /\ stopSeen = FALSE

(***************************************************************************)
(* Actions                                                                 *)
(***************************************************************************)
LastBound(w) == IF Len(w.s.bound) > 0 THEN w.s.bound[Len(w.s.bound)] ELSE lastDate

\* publish the result w of a synchronous run of session k
Commit(k, w) ==
  /\ sessions' = IF k > Len(sessions) THEN Append(sessions, w.s)
                 ELSE [sessions EXCEPT ![k] = w.s]
  /\ isAnimating' = w.anim
  /\ isRecording' = w.rec
  /\ status' = w.st
  /\ mapStyle' = w.style
  /\ downloads' = w.dl
  /\ lastDate' = IF Len(w.s.bound) > (IF k > Len(sessions) THEN 0
                                      ELSE Len(sessions[k].bound))
                 THEN LastBound(w) ELSE lastDate

\* useEffect(() => ensureMap(dates[0] ?? formatDate(daysAgo(3)))) after mount
MountEffect ==
  /\ effectPending
  /\ LET initial == InitialDate(dates, today)
         e == ensureMap(mapRef, hasContainer, mapsCreated, mapStyle, initial)
     IN  /\ mapRef' = e.ref
         /\ mapsCreated' = e.created
         /\ mapStyle' = e.style
         /\ lastDate' = IF e.created > mapsCreated THEN initial ELSE lastDate
  /\ effectPending' = FALSE
  /\ afterStop' = FALSE /\ afterRecord' = FALSE
  /\ UNCHANGED <<today, days, dates, datesAt, hasContainer, isAnimating,
                 isRecording, status, sessions, recorderRef, recordedChunks,
                 downloads, stopSeen>>

\* the Days input's onChange: setDays(d); the render recomputes dates and the
\* effect, which depends on dates, runs ensureMap again
SetDays(d) ==
  /\ ~effectPending
  /\ d # days
  /\ days' = d
  /\ dates' = ComputeDates(today, d)
  /\ datesAt' = today
  /\ LET initial == InitialDate(dates', today)
         e == ensureMap(mapRef, hasContainer, mapsCreated, mapStyle, initial)
     IN  /\ mapRef' = e.ref
         /\ mapsCreated' = e.created
         /\ mapStyle' = e.style
         /\ lastDate' = IF e.created > mapsCreated THEN initial ELSE lastDate
  /\ afterStop' = FALSE /\ afterRecord' = FALSE
  /\ UNCHANGED <<today, hasContainer, isAnimating, isRecording, status,
                 effectPending, sessions, recorderRef, recordedChunks,
                 downloads, stopSeen>>

\* midnight UTC passes
Tick ==
  /\ \E t0 \in TodayChoices : t0 <= today /\ today < t0 + MaxTicks
  /\ today' = today + 1
  /\ UNCHANGED <<afterStop, afterRecord>>
  /\ UNCHANGED <<days, dates, datesAt, hasContainer, mapRef, mapsCreated,
                 mapStyle, isAnimating, isRecording, status, effectPending,
                 sessions, recorderRef, recordedChunks, downloads,
                 lastDate, stopSeen>>

\* <button disabled={isAnimating || isRecording} onClick={() => animateDates()}>
PlayEnabled == ~(isAnimating \/ isRecording)

Play(cap, strictStop) ==
  /\ ~effectPending
  /\ PlayEnabled
  /\ Len(sessions) < cap
  /\ LET k  == Len(sessions) + 1
         s0 == NewSession("preview", isAnimating, isRecording, dates)
         w  == Resume(animateDates(World(s0), mapRef), k, recordedChunks, strictStop)
     IN  Commit(k, w)
  /\ afterStop' = FALSE /\ afterRecord' = FALSE
  /\ stopSeen' = FALSE
  /\ UNCHANGED <<today, days, dates, datesAt, hasContainer, mapRef,
                 mapsCreated, effectPending, recorderRef, recordedChunks>>

\* <button disabled={isRecording} onClick={startRecording}>
RecordEnabled == ~isRecording

\* mutant: setRecording(true) and setStatus run before the map test
Record_FlagsBeforeMapTest(cap, strictStop) ==
  /\ ~effectPending
  /\ RecordEnabled
  /\ Len(sessions) < cap
  /\ IF mapRef = 0
       THEN /\ isRecording' = TRUE
            /\ status' = Status("Recording...")
            /\ UNCHANGED <<sessions, isAnimating, mapStyle, downloads,
                           lastDate, recorderRef, recordedChunks>>
       ELSE
         LET k  == Len(sessions) + 1
             s0 == [NewSession("record", isAnimating, isRecording, dates)
                      EXCEPT !.recState = "recording"]
             w0 == [World(s0) EXCEPT !.rec = TRUE, !.st = Status("Recording...")]
             w  == Resume(animateDates(w0, mapRef), k, <<>>, strictStop)
         IN  /\ Commit(k, w)
             /\ recorderRef' = k
             /\ recordedChunks' = <<>>
  /\ afterStop' = FALSE /\ afterRecord' = TRUE
  /\ stopSeen' = FALSE
  /\ UNCHANGED <<today, days, dates, datesAt, hasContainer, mapRef,
                 mapsCreated, effectPending>>

\* startRecording up to its first pending await
Record(cap, strictStop) ==
  /\ ~effectPending
  /\ RecordEnabled
  /\ Len(sessions) < cap
  /\ IF mapRef = 0
       THEN UNCHANGED <<sessions, isAnimating, isRecording, status, mapStyle,
                        downloads, lastDate, recorderRef, recordedChunks>>
       ELSE
         LET k  == Len(sessions) + 1
             s0 == [NewSession("record", isAnimating, isRecording, dates)
                      EXCEPT !.recState = "recording"]
             w0 == [World(s0) EXCEPT !.rec = TRUE, !.st = Status("Recording...")]
             w  == Resume(animateDates(w0, mapRef), k, <<>>, strictStop)
         IN  /\ Commit(k, w)
             /\ recorderRef' = k
             /\ recordedChunks' = <<>>
  /\ afterStop' = FALSE /\ afterRecord' = TRUE
  /\ stopSeen' = FALSE
  /\ UNCHANGED <<today, days, dates, datesAt, hasContainer, mapRef,
                 mapsCreated, effectPending>>

\* mutant: setRecording(false) is missing
stopAll_KeepRecording(ss, ref) ==
  [anim |-> FALSE,
   sessions |-> IF ref # 0 /\ ss[ref].recState # "inactive"
                  THEN [ss EXCEPT ![ref] = RecorderStop(ss[ref], FALSE)]
                  ELSE ss,
   rec |-> isRecording,
   st |-> StatusEmpty]

\* mutant: the recorder is stopped whatever its state
stopAll_AlwaysStop(ss, ref) ==
  [anim |-> FALSE,
   sessions |-> IF ref # 0
                  THEN [ss EXCEPT ![ref] = RecorderStop(ss[ref], FALSE)]
                  ELSE ss,
   rec |-> FALSE,
   st |-> StatusEmpty]

\* mutant: the recorder is stopped when its state is inactive
stopAll_StopInactive(ss, ref) ==
  [anim |-> FALSE,
   sessions |-> IF ref # 0 /\ ss[ref].recState = "inactive"
                  THEN [ss EXCEPT ![ref] = RecorderStop(ss[ref], FALSE)]
                  ELSE ss,
   rec |-> FALSE,
   st |-> StatusEmpty]

\* stopAll's writes, as a function of what it reads
stopAll(ss, ref) ==
  [anim |-> FALSE,
   sessions |-> IF ref # 0 /\ ss[ref].recState # "inactive"
                  THEN [ss EXCEPT ![ref] = RecorderStop(ss[ref], FALSE)]
                  ELSE ss,
   rec |-> FALSE,
   st |-> StatusEmpty]

\* history: note on every pending session that stopAll interrupted it
MarkOne(s) ==
  IF Pending(s) /\ s.stopPc = ""
    THEN [s EXCEPT !.stopPc = s.pc, !.stopAt = Len(s.bound)]
    ELSE s
RECURSIVE MarkStopped(_)
MarkStopped(ss) ==
  IF ss = <<>> THEN <<>> ELSE <<MarkOne(Head(ss))>> \o MarkStopped(Tail(ss))

\* <button onClick={stopAll}>
StopAll ==
  /\ ~effectPending
  /\ LET r == stopAll(MarkStopped(sessions), recorderRef)
     IN  /\ isAnimating' = r.anim
         /\ sessions' = r.sessions
         /\ isRecording' = r.rec
         /\ status' = r.st
  /\ afterStop' = TRUE /\ afterRecord' = FALSE
  /\ stopSeen' = (PendingSessions # {})
  /\ UNCHANGED <<today, days, dates, datesAt, hasContainer, mapRef,
                 mapsCreated, mapStyle, effectPending, recorderRef,
                 recordedChunks, downloads, lastDate>>

\* recorder.ondataavailable
Push(chunks, k, size) ==
  IF size > 0 THEN Append(chunks, [owner |-> k, size |-> size]) ELSE chunks

\* the task queued by recorder.stop(): the last dataavailable, then onstop,
\* which resolves stopPromise; a startRecording awaiting it goes on to finalize
RecorderStopTask(k, size) ==
  /\ sessions[k].stopQueued
  /\ recordedChunks' = Push(recordedChunks, k, size)
  /\ LET s1 == [sessions[k] EXCEPT !.stopQueued = FALSE, !.stopResolved = TRUE,
                                   !.buffered = @ + size]
         w  == IF s1.pc = "awaitStop"
                 THEN Finalize(World(s1), k, recordedChunks')
                 ELSE World(s1)
     IN  Commit(k, w)
  /\ afterStop' = FALSE /\ afterRecord' = FALSE
  /\ UNCHANGED <<today, days, dates, datesAt, hasContainer, mapRef,
                 mapsCreated, effectPending, recorderRef, stopSeen>>

\* a timeslice chunk of a recorder that is recording
RecorderData(k, size) ==
  /\ sessions[k].recState = "recording"
  /\ sessions[k].emitted < MaxChunks
  /\ recordedChunks' = Push(recordedChunks, k, size)
  /\ sessions' = [sessions EXCEPT ![k].emitted = @ + 1,
                                  ![k].buffered = @ + size]
  /\ afterStop' = FALSE /\ afterRecord' = FALSE
  /\ UNCHANGED <<today, days, dates, datesAt, hasContainer, mapRef,
                 mapsCreated, mapStyle, isAnimating, isRecording, status,
                 effectPending, recorderRef, downloads, lastDate,
                 stopSeen>>

IdleOne(s) ==
  [s EXCEPT !.listeners = {},
            !.pc = IF @ = "waitIdle" /\ s.i \in s.listeners THEN "pacing" ELSE @]
RECURSIVE IdleAll(_)
IdleAll(ss) ==
  IF ss = <<>> THEN <<>> ELSE <<IdleOne(Head(ss))>> \o IdleAll(Tail(ss))

\* the map fires "idle": every registered onIdle unregisters itself and
\* resolves the wait of its step
MapIdle ==
  /\ mapRef # 0
  /\ \E k \in 1..Len(sessions) : sessions[k].listeners # {}
  /\ sessions' = IdleAll(sessions)
  /\ afterStop' = FALSE /\ afterRecord' = FALSE
  /\ UNCHANGED <<today, days, dates, datesAt, hasContainer, mapRef,
                 mapsCreated, mapStyle, isAnimating, isRecording, status,
                 effectPending, recorderRef, recordedChunks, downloads,
                 lastDate, stopSeen>>

\* mutant: the timer resolves whichever wait is pending
FallbackTimeout_SharedResolve(k, j) ==
  /\ j \in sessions[k].timers
  /\ \A j2 \in sessions[k].timers : j <= j2
  /\ sessions' = [sessions EXCEPT
        ![k].timers = @ \ {j},
        ![k].listeners = @ \ {j},
        ![k].pc = IF @ = "waitIdle" THEN "pacing" ELSE @,
        ![k].staleFired = @ \/ (sessions[k].pc = "waitIdle" /\ sessions[k].i # j)]
  /\ afterStop' = FALSE /\ afterRecord' = FALSE
  /\ UNCHANGED <<today, days, dates, datesAt, hasContainer, mapRef,
                 mapsCreated, mapStyle, isAnimating, isRecording, status,
                 effectPending, recorderRef, recordedChunks, downloads,
                 lastDate, stopSeen>>

\* the 1500 ms timer of step j of session k fires: map.off("idle", onIdle) and
\* resolve() of step j's promise; timers of equal delay fire in the order in
\* which they were set, so it is the session's oldest pending one
FallbackTimeout(k, j) ==
  /\ j \in sessions[k].timers
  /\ \A j2 \in sessions[k].timers : j <= j2
  /\ sessions' = [sessions EXCEPT
        ![k].timers = @ \ {j},
        ![k].listeners = @ \ {j},
        ![k].pc = IF @ = "waitIdle" /\ sessions[k].i = j THEN "pacing" ELSE @,
        ![k].staleFired = @ \/ (sessions[k].pc = "waitIdle" /\ sessions[k].i # j)]
  /\ afterStop' = FALSE /\ afterRecord' = FALSE
  /\ UNCHANGED <<today, days, dates, datesAt, hasContainer, mapRef,
                 mapsCreated, mapStyle, isAnimating, isRecording, status,
                 effectPending, recorderRef, recordedChunks, downloads,
                 lastDate, stopSeen>>

\* the frame-pacing timer fires: i++ and the next iteration
PacingTimer(k, strictStop) ==
  /\ sessions[k].pc = "pacing"
  /\ LET w == Resume(RunLoop(World(sessions[k]), sessions[k].i + 1, mapRef),
                     k, recordedChunks, strictStop)
     IN  Commit(k, w)
  /\ afterStop' = FALSE /\ afterRecord' = FALSE
  /\ UNCHANGED <<today, days, dates, datesAt, hasContainer, mapRef,
                 mapsCreated, effectPending, recorderRef, recordedChunks,
                 stopSeen>>

\* updateDateTiles called on its own, between sessions, with one of the
\* current dates
SetDate(dateStr) ==
  /\ ~effectPending
  /\ PendingSessions = {}
  /\ LET m == updateDateTiles(mapRef, mapStyle, dateStr)
     IN  mapStyle' = [m EXCEPT !.threw = FALSE]
  /\ lastDate' = dateStr
  /\ afterStop' = FALSE /\ afterRecord' = FALSE
  /\ UNCHANGED <<today, days, dates, datesAt, hasContainer, mapRef,
                 mapsCreated, isAnimating, isRecording, status, effectPending,
                 sessions, recorderRef, recordedChunks, downloads,
                 stopSeen>>

Sessions == 1..Len(sessions)
ChunkSizes == 0..MaxChunk
DateArgs ==
  IF Len(dates) = 0 THEN {InitialDate(dates, today)}
  ELSE {dates[1], dates[Len(dates)]}

Next ==
  \/ MountEffect
  \/ \E d \in {0, DefaultDays} : SetDays(d)
  \/ \E strict \in BOOLEAN : Play(MaxSessions, strict)
  \/ \E strict \in BOOLEAN : Record(MaxSessions, strict)
  \/ StopAll
  \/ \E k \in Sessions, n \in ChunkSizes : RecorderStopTask(k, n)

Spec == Init /\ [][Next]_vars

\* the callbacks driven directly, for a date sequence fixed at the start
UnitNext ==
  \/ MountEffect
  \/ \E strict \in BOOLEAN : Play(MaxUnitSessions, strict)
  \/ \E strict \in BOOLEAN : Record(MaxUnitSessions, strict)
  \/ StopAll
  \/ \E k \in Sessions, n \in ChunkSizes : RecorderStopTask(k, n)
  \/ \E k \in Sessions, n \in ChunkSizes : RecorderData(k, n)
  \/ MapIdle
  \/ \E k \in Sessions : \E j \in sessions[k].timers : FallbackTimeout(k, j)
  \/ \E k \in Sessions, strict \in BOOLEAN : PacingTimer(k, strict)
  \/ \E d \in DateArgs : SetDate(d)

UnitSpec == UnitInit /\ [][UnitNext]_vars

\* the date sequence and the map-ensuring effect on their own: the Days input
\* stepped up and down (step={1}) through every day count its min and max
\* admit, each change re-running the effect, with the container attached or
\* not, and the clock moving on while the component is open
DatesNext ==
  \/ MountEffect
  \/ \E d \in {days - 1, days + 1} \cap UiDays : SetDays(d)
  \/ Tick

DatesInit ==
  /\ today \in TodayChoices
  /\ days = DefaultDays
  /\ dates = ComputeDates(today, days)
  /\ datesAt = today
  /\ hasContainer \in BOOLEAN
  /\ mapRef = 0
  /\ mapsCreated = 0
  /\ mapStyle = NoStyle
  /\ isAnimating = FALSE
  /\ isRecording = FALSE
  /\ status = StatusEmpty
  /\ effectPending = TRUE
  /\ sessions = <<>>
  /\ recorderRef = 0
  /\ recordedChunks = <<>>
  /\ downloads = <<>>
  /\ lastDate = InitialDate(dates, today)
  /\ afterStop = FALSE
  /\ afterRecord = FALSE
  /\ stopSeen = FALSE

DatesSpec == DatesInit /\ [][DatesNext]_vars

(***************************************************************************)
(* Claims                                                                  *)
(***************************************************************************)
Previews == {k \in Sessions : sessions[k].kind = "preview"}
Recordings == {k \in Sessions : sessions[k].kind = "record"}

\* C1: a preview started from Idle on a non-empty date sequence has, once it
\* has returned, bound the tile source to every date of the sequence exactly
\* once and in order, and isAnimating is false again.
C1_PreviewVisitsAllDates ==
  \A k \in Previews :
    (sessions[k].pc = "done" /\ Len(sessions[k].capDates) > 0)
      => /\ sessions[k].bound = sessions[k].capDates
         /\ (PendingSessions = {} => ~isAnimating)

C3_OneSessionPending == Cardinality(PendingSessions) <= 1

\* the browser runs the task a recorder's stop() has queued
StopTaskOf(k) == k \in Sessions /\ \E n \in ChunkSizes : RecorderStopTask(k, n)

LiveSpec == Spec /\ \A k \in 1..MaxSessions : WF_vars(StopTaskOf(k))

Downloaded(k) == \E i \in 1..Len(downloads) : downloads[i].session = k

\* C4: a recording that stopAll interrupts before any frame has completed is
\* still finalized: the recorder's stop signal fires, a blob is built from the
\* chunk buffer and downloaded, and isRecording is false when that has happened.
C4_StoppedRecordingFinalizes ==
  /\ \A k \in 1..MaxSessions :
       (k \in Recordings /\ sessions[k].stopPc # "" /\ sessions[k].stopAt <= 1)
         ~> (k \in Recordings /\ sessions[k].pc = "done"
               /\ sessions[k].stopResolved /\ Downloaded(k))
  /\ [][\A k \in Recordings :
          (sessions[k].pc # "done" /\ sessions'[k].pc = "done")
            => (~isRecording' /\ Len(downloads') = Len(downloads) + 1
                  /\ downloads'[Len(downloads')].blob = recordedChunks')]_vars

C4_Witness ==
  \E k \in Recordings :
    /\ sessions[k].stopPc # "" /\ sessions[k].stopAt = 0
    /\ sessions[k].pc = "done" /\ Downloaded(k) /\ ~isRecording

\* C5 as stated: after stopAll has interrupted a session and every session has
\* run to its end, with no button pressed since, isAnimating and isRecording
\* are false and the status is empty.
C5_StopLeavesCleared ==
  (stopSeen /\ PendingSessions = {})
    => (~isAnimating /\ ~isRecording /\ status = StatusEmpty)

\* C5 as amended: after stopAll has interrupted a session, with no button
\* pressed since, isAnimating and isRecording are false; once every session
\* has run to its end the status is the "Video ready" text.
C5_StopLeavesFlagsCleared ==
  stopSeen => /\ ~isAnimating
              /\ ~isRecording
              /\ (PendingSessions = {} => status = StatusVideoReady)

C5_Witness ==
  /\ stopSeen /\ PendingSessions = {}
  /\ \E k \in Recordings : sessions[k].stopPc # "" /\ Downloaded(k)

\* no session is pending and no recorder is active
Idle ==
  /\ PendingSessions = {}
  /\ recorderRef # 0 => sessions[recorderRef].recState = "inactive"

\* C6: stopAll while Idle leaves isAnimating and isRecording false and the
\* status empty, calls no recorder's stop, leaves the map's source and layer
\* and the chunk buffer as they were, and a second stopAll right after it
\* changes nothing.
C6_StopIdleNoOp ==
  [][(afterStop' /\ today' = today /\ Idle)
       => /\ ~isAnimating' /\ ~isRecording' /\ status' = StatusEmpty
          /\ UNCHANGED <<sessions, recorderRef, mapRef, mapStyle,
                         recordedChunks, downloads>>
          /\ stopAll(sessions', recorderRef')
               = [anim |-> isAnimating', sessions |-> sessions',
                  rec |-> isRecording', st |-> status']]_vars

C6_Witness ==
  /\ afterStop /\ Idle /\ recorderRef # 0
  /\ sessions[recorderRef].stopCalls = 1
  /\ ~isAnimating /\ ~isRecording /\ status = StatusEmpty

OneGibs(dateStr) ==
  [sources |-> {[id |-> "gibs", tiles |-> buildGibsUrl(dateStr)]},
   layers  |-> {[id |-> "gibs-layer", source |-> "gibs"]},
   threw   |-> FALSE]

\* C7: an initialised map always has exactly the source 'gibs' and the layer
\* 'gibs-layer', showing the date it was last asked to show; updateDateTiles
\* on a map without source and layer installs them; without a map it changes
\* nothing.
C7_OneSourceOneLayer ==
  /\ mapRef # 0 => mapStyle = OneGibs(lastDate)
  /\ mapRef = 0 => mapStyle = NoStyle
  /\ \A d \in DateArgs :
       /\ updateDateTiles(1, NoStyle, d) = OneGibs(d)
       /\ updateDateTiles(0, NoStyle, d) = NoStyle

C7_Witness ==
  /\ mapRef # 0
  /\ \E k \in Sessions :
       /\ Len(sessions[k].bound) >= 2
       /\ sessions[k].bound[1] # sessions[k].bound[2]
       /\ lastDate = sessions[k].bound[2]
       /\ mapStyle = OneGibs(lastDate)

RECURSIVE SumSizes(_)
SumSizes(chunks) ==
  IF chunks = <<>> THEN 0 ELSE chunks[1].size + SumSizes(Tail(chunks))

IsPrefix(a, b) == Len(a) <= Len(b) /\ SubSeq(b, 1, Len(a)) = a

\* C8: the chunk buffer is empty when a recording session starts, is only
\* appended to while that session is pending, and the blob the session exports
\* has the total size of the chunks buffered for that session.
C8_BufferPerSession ==
  /\ [](\A i \in 1..Len(downloads) :
          SumSizes(downloads[i].blob) = sessions[downloads[i].session].buffered)
  /\ [][(Len(sessions') > Len(sessions)
           /\ sessions'[Len(sessions')].kind = "record")
          => recordedChunks' = <<>>]_vars
  /\ [][\A k \in Recordings :
          (Pending(sessions[k]) /\ Pending(sessions'[k]))
            => IsPrefix(recordedChunks, recordedChunks')]_vars

IsLeap(y) == (y % 4 = 0 /\ y % 100 # 0) \/ y % 400 = 0
DaysInMonth(y, m) ==
  IF m \in {4, 6, 9, 11} THEN 30
  ELSE IF m = 2 THEN (IF IsLeap(y) THEN 29 ELSE 28)
  ELSE 31
\* the calendar day after <<y, m, d>>
NextCivil(c) ==
  IF c[3] < DaysInMonth(c[1], c[2]) THEN <<c[1], c[2], c[3] + 1>>
  ELSE IF c[2] < 12 THEN <<c[1], c[2] + 1, 1>>
  ELSE <<c[1] + 1, 1, 1>>
\* the calendar day n days after c, by halves; the test on mid has it
\* evaluated before the second half is entered
RECURSIVE Advance(_, _)
Advance(c, n) ==
  IF n <= 0 THEN c
  ELSE IF n = 1 THEN NextCivil(c)
  ELSE LET h == n \div 2
           mid == Advance(c, h)
       IN  IF mid[3] > 0 THEN Advance(mid, n - h) ELSE mid
\* the calendar dates of the days in TodayChoices and of the days after them
CivilOf(day) ==
  IF day >= 20760 THEN Advance(<<2026, 11, 3>>, day - 20760)
  ELSE IF day >= 20089 THEN Advance(<<2025, 1, 1>>, day - 20089)
  ELSE Advance(<<2024, 2, 28>>, day - 19781)

\* C9: for days in [7,120] the date sequence has days entries, each the
\* calendar day after its predecessor, the first days+1 days and the last 2
\* days before the UTC day on which it was generated.
C9_DateSequence ==
  days \in UiDays =>
    /\ Len(dates) = days
    /\ \A j \in 1..(Len(dates) - 1) : dates[j + 1] = NextCivil(dates[j])
    /\ Advance(dates[1], days + 1) = CivilOf(datesAt)
    /\ Advance(dates[Len(dates)], 2) = CivilOf(datesAt)

C9_Witness ==
  /\ days = MaxDays /\ Len(dates) = MaxDays
  /\ datesAt = 19782
  /\ dates[Len(dates)] = <<2024, 2, 27>>

\* C10: at most one map is ever constructed, only when there is none and the
\* container is present, and the map reference, once set, is never replaced.
C10_OneMap ==
  /\ [](mapsCreated <= 1 /\ (mapRef # 0 => (hasContainer /\ mapsCreated = 1)))
  /\ [][mapRef # 0 => mapRef' = mapRef]_vars
  /\ [][mapsCreated' # mapsCreated => (mapRef = 0 /\ hasContainer)]_vars

C10_Witness ==
  /\ mapRef = 1 /\ mapsCreated = 1 /\ ~effectPending
  /\ days = MinDays /\ lastDate # InitialDate(dates, today)

\* C11: the animation driver invoked with an empty date sequence binds no
\* date, calls no onFrame, raises no error and leaves isAnimating, the map and
\* the status as they were when it was called (for a recording the status
\* startRecording had just set, "Recording...").
C11_EmptyIsNoOp ==
  [][(Len(sessions') = Len(sessions) + 1 /\ Len(dates) = 0) =>
       LET s == sessions'[Len(sessions')]
       IN  /\ s.bound = <<>> /\ s.frames = <<>>
           /\ s.listeners = {} /\ s.timers = {}
           /\ s.pc # "failed"
           /\ isAnimating' = isAnimating
           /\ mapStyle' = mapStyle
           /\ status' = IF s.kind = "preview" THEN status
                         ELSE Status("Recording...")]_vars

C11_Witness ==
  /\ isAnimating
  /\ \E k \in Sessions :
       /\ sessions[k].kind = "record" /\ sessions[k].capDates = <<>>
       /\ sessions[k].pc = "awaitStop" /\ sessions[k].bound = <<>>

\* C12: startRecording invoked while there is no map creates and starts no
\* recorder, does not reset the chunk buffer, triggers no download and leaves
\* isRecording, isAnimating and the status as they were.
C12_RecordNoMapNoOp ==
  [][(afterRecord' /\ mapRef = 0)
       => UNCHANGED <<sessions, recorderRef, recordedChunks, downloads,
                      isRecording, isAnimating, status, mapRef, mapStyle>>]_vars

C12_Witness ==
  /\ afterRecord /\ mapRef = 0 /\ ~effectPending
  /\ recorderRef = 0 /\ ~isRecording /\ downloads = <<>>
  /\ \A k \in Sessions : sessions[k].kind # "record"

FallbackOf(k) ==
  k \in Sessions /\ \E j \in sessions[k].timers : FallbackTimeout(k, j)
PacingOf(k) ==
  k \in Sessions /\ \E strict \in BOOLEAN : PacingTimer(k, strict)

\* the driver's loop on its own: sessions started and stopped, the map's idle
\* event and the timers, without the recorder's events
LoopNext ==
  \/ MountEffect
  \/ \E strict \in BOOLEAN : Play(MaxSessions, strict)
  \/ \E strict \in BOOLEAN : Record(MaxSessions, strict)
  \/ StopAll
  \/ MapIdle
  \/ \E k \in Sessions : \E j \in sessions[k].timers : FallbackTimeout(k, j)
  \/ \E k \in Sessions, strict \in BOOLEAN : PacingTimer(k, strict)

LoopSpec ==
  /\ UnitInit /\ [][LoopNext]_vars
  /\ \A k \in 1..MaxSessions :
       WF_vars(FallbackOf(k)) /\ WF_vars(PacingOf(k))

InLoop(s) == s.pc \in {"running", "waitIdle", "pacing"}

\* C14: if timers eventually fire, every invocation of animateDates returns,
\* whether or not the map ever fires "idle": a step that waits has its own
\* fallback timer pending, and when the driver returns isAnimating is set to
\* false.
C14_DriverTerminates ==
  /\ \A k \in 1..MaxSessions :
       (k \in Sessions /\ InLoop(sessions[k]))
         ~> (k \in Sessions /\ ~InLoop(sessions[k]))
  /\ [](\A k \in Sessions :
          sessions[k].pc = "waitIdle" => sessions[k].i \in sessions[k].timers)
  /\ [][\A k \in Sessions :
          (InLoop(sessions[k]) /\ ~InLoop(sessions'[k])) => ~isAnimating']_vars

C14_Witness ==
  \E k \in Sessions :
    /\ ~InLoop(sessions[k]) /\ sessions[k].pc # "failed"
    /\ Len(sessions[k].bound) = MaxTyped
    /\ sessions[k].listeners = {}
    /\ ~isAnimating

\* C15: one invocation of animateDates executes at most as many steps as it
\* has dates, binds the dates in index order, each once, and (for a recording)
\* has called onFrame for exactly the indices bound so far, index i before the
\* wait of step i begins; a preview passes no onFrame.
C15_StepsInOrder ==
  \A k \in Sessions :
    LET s == sessions[k]
    IN  /\ Len(s.bound) <= Len(s.capDates)
        /\ \A j \in 1..Len(s.bound) : s.bound[j] = s.capDates[j]
        /\ s.i <= Len(s.capDates)
        /\ s.pc \in {"waitIdle", "pacing"} => Len(s.bound) = s.i + 1
        /\ Len(s.frames) = (IF s.kind = "record" THEN Len(s.bound) ELSE 0)
        /\ \A j \in 1..Len(s.frames) : s.frames[j] = j - 1

C15_Witness ==
  \E k \in Sessions :
    /\ sessions[k].kind = "record"
    /\ Len(sessions[k].capDates) = MaxTyped
    /\ Len(sessions[k].bound) = MaxTyped
    /\ Len(sessions[k].frames) = MaxTyped
    /\ ~InLoop(sessions[k])

DownloadsOf(k) == {n \in 1..Len(downloads) : downloads[n].session = k}

\* C16: every recording that found a map triggers its download, once, and not
\* before animateDates has returned and the recorder's stop event has fired,
\* whether or not stopAll was called while it was pending.
C16_DownloadOnceAfterStop ==
  /\ \A k \in 1..MaxSessions :
       (k \in Recordings) ~> (k \in Recordings /\ Downloaded(k))
  /\ [](\A k \in Sessions :
          /\ Cardinality(DownloadsOf(k)) <= 1
          /\ Downloaded(k) => /\ sessions[k].kind = "record"
                               /\ sessions[k].pc = "done"
                               /\ sessions[k].stopResolved)
  /\ [][Len(downloads') # Len(downloads) =>
          /\ Len(downloads') = Len(downloads) + 1
          /\ LET k == downloads'[Len(downloads')].session
             IN  /\ k \in Recordings /\ ~Downloaded(k)
                 /\ sessions[k].pc = "awaitStop" \/ sessions[k].stopResolved
                 /\ sessions'[k].stopResolved /\ ~sessions'[k].stopQueued]_vars

C16_Witness ==
  /\ Len(downloads) = 2
  /\ \E k \in Recordings :
       sessions[k].stopPc = "" /\ sessions[k].pc = "done"
         /\ Cardinality(DownloadsOf(k)) = 1
  /\ \E k \in Recordings :
       sessions[k].stopPc # "" /\ sessions[k].pc = "done"
         /\ Cardinality(DownloadsOf(k)) = 1

\* C19: recorder.stop() is never called on a recorder that is inactive: each
\* recorder gets at most one stop call, whichever of stopAll and
\* startRecording makes it, and its stop event is queued and fired at most
\* once.
C19_StopCalledOnce ==
  /\ [](\A k \in Recordings :
          /\ sessions[k].stopCalls <= 1
          /\ sessions[k].pc # "failed"
          /\ (sessions[k].stopCalls = 0) = (sessions[k].recState = "recording")
          /\ ~(sessions[k].stopQueued /\ sessions[k].stopResolved))
  /\ [][\A k \in Sessions :
          /\ sessions'[k].stopCalls > sessions[k].stopCalls
               => sessions[k].recState = "recording"
          /\ sessions[k].stopResolved
               => (sessions'[k].stopResolved /\ ~sessions'[k].stopQueued)]_vars

C19_Witness ==
  /\ afterStop
  /\ \E k \in Recordings :
       /\ recorderRef = k
       /\ sessions[k].stopPc = "awaitStop" /\ sessions[k].pc = "awaitStop"
       /\ sessions[k].stopCalls = 1 /\ sessions[k].recState = "inactive"

C18_ZeroOrAllSteps ==
  \A k \in Sessions :
    LET s == sessions[k]
    IN  /\ InLoop(s) => (s.capAnimating \/ s.capRecording)
        /\ ~InLoop(s) =>
             Len(s.bound) = (IF s.capAnimating \/ s.capRecording
                               THEN Len(s.capDates) ELSE 0)

C18_Witness ==
  \E k \in Sessions :
    /\ sessions[k].stopPc \in {"waitIdle", "pacing"}
    /\ sessions[k].stopAt < MaxTyped
    /\ ~InLoop(sessions[k])
    /\ Len(sessions[k].bound) = MaxTyped

\* C20: the wait of step i ends only through the idle listener or the
\* fallback timer that step i registered; a timer of an earlier step that
\* fires during it leaves it waiting; and once the wait of a step has ended
\* the listener of that step is off the map.
C20_WaitResolvedByOwnStep ==
  /\ [](\A k \in Sessions :
          /\ sessions[k].listeners \subseteq
               (IF sessions[k].pc = "waitIdle" THEN {sessions[k].i} ELSE {})
          /\ sessions[k].pc = "waitIdle" =>
               /\ sessions[k].i \in sessions[k].listeners
               /\ sessions[k].i \in sessions[k].timers)
  /\ [][\A k \in Sessions :
          (sessions[k].pc = "waitIdle" /\ sessions'[k].pc # "waitIdle") =>
             /\ sessions'[k].pc = "pacing" /\ sessions'[k].i = sessions[k].i
             /\ sessions[k].i \notin sessions'[k].listeners
             /\ \/ sessions[k].i \notin sessions'[k].timers
                \/ sessions'[k].timers = sessions[k].timers]_vars

C20_Witness ==
  \E k \in Sessions :
    /\ sessions[k].staleFired
    /\ sessions[k].pc = "waitIdle"
    /\ sessions[k].i > 0
    /\ sessions[k].timers = {sessions[k].i}

====
